---- MODULE Spec2Model ----
(***************************************************************************)
(* A model of breze's autoencoder family (breze/arch/model/feature/        *)
(* autoencoder.py) and of its dropout training wrappers                    *)
(* (breze/learn/mlp.py).                                                   *)
(*                                                                         *)
(* One object is built per behaviour.  Symbolic Theano expressions are     *)
(* terms: records [op, name, val, args]; an expression graph (exprs) is a  *)
(* function from role names to terms.  Real numbers are abstracted by      *)
(* small integers; dropout rates are given in tenths.                      *)
(***************************************************************************)
EXTENDS Integers, Sequences, FiniteSets, TLC

VARIABLES
    kind,           \* class of the object under construction, "none" before
    err,            \* "" or the exception that ended the constructor
    cfg,            \* the attributes the constructor stored on self
    parspec,        \* autoencoders: self.parameters, name -> declared shape
    hidden_to_out,  \* autoencoders: the decode matrix init_exprs passes on
    exprs,          \* self.exprs, role -> term (NoExprs while not stored)
    parameters,     \* MLPs: self.parameters, name -> matrix (seq of columns)
    pc,             \* position of the iter_fit generator
    f_loss,         \* the loss term the generator compiled into f_loss
    n_updates,      \* optimizer updates applied by the running generator
    records,        \* step records the running generator has yielded
    opt_ended,      \* whether the optimizer's own sequence has ended
    projected,      \* parameter names hit by the last projection pass
    sched           \* the schedules of dropout_optimizer_conf and their draws

vars == <<kind, err, cfg, parspec, hidden_to_out, exprs, parameters, pc,
          f_loss, n_updates, records, opt_ended, projected, sched>>

(***************************************************************************)
(* Bounds of the model.                                                    *)
(***************************************************************************)
MaxDim == 2
MaxSteps == 2
MaxDraws == 5

Dims == 1..MaxDim

(***************************************************************************)
(* Symbolic expressions.                                                   *)
(***************************************************************************)
Node(op, name, val, args) == [op |-> op, name |-> name, val |-> val, args |-> args]

Matrix(name) == Node("var", name, 0, <<>>)
Param(name) == Node("param", name, 0, <<>>)
Const(v) == Node("const", "", v, <<>>)
Transpose(e) == Node("T", "", 0, <<e>>)
Dot(a, b) == Node("dot", "", 0, <<a, b>>)
Add(a, b) == Node("add", "", 0, <<a, b>>)
Mul(a, b) == Node("mul", "", 0, <<a, b>>)
Sqr(a) == Node("sqr", "", 0, <<a>>)
Mean(a) == Node("mean", "", 0, <<a>>)
Sum(a) == Node("sum", "", 0, <<a>>)
Transfer(f, a) == Node("transfer", f, 0, <<a>>)
LossFn(f, target, output) == Node("lossfn", f, 0, <<target, output>>)
Grad(cost, wrt) == Node("grad", "", 0, <<cost, wrt>>)
GaussianPerturb(a, c) == Node("gaussian_perturb", "", c, <<a>>)
Mask(a, p) == Node("mask", "", p, <<a>>)

NoTerm == Node("none", "", 0, <<>>)
NoExprs == [r \in {} |-> NoTerm]

\* theano.clone(output, {target: replacement}): a new term in which every
\* occurrence of target is replaced; the replacement itself is not revisited.
RECURSIVE Clone(_, _, _)
Clone(e, target, replacement) ==
    IF e = target THEN replacement
    ELSE [e EXCEPT !.args =
            [i \in DOMAIN e.args |-> Clone(e.args[i], target, replacement)]]

\* Whether term t occurs in term e.
RECURSIVE Occurs(_, _)
Occurs(t, e) == e = t \/ \E i \in DOMAIN e.args : Occurs(t, e.args[i])

Range(f) == {f[i] : i \in DOMAIN f}

Put(ex, role, term) ==
    [r \in DOMAIN ex \cup {role} |-> IF r = role THEN term ELSE ex[r]]

Del(ex, role) == [r \in DOMAIN ex \ {role} |-> ex[r]]

(***************************************************************************)
(* Evaluation of a term.  Every tensor is taken at size 1 x 1 (one sample, *)
(* one unit per layer), so a transpose, a mean and a sum return the single *)
(* entry; env gives the input, the parameters and the random draws.  Only  *)
(* terms without corruption are evaluated below, so Envs fixes the draws.  *)
(***************************************************************************)
EvalVals == {-1, 0, 1}

Envs ==
    [inpt : EvalVals, in_to_hidden : EvalVals, hidden_to_out : EvalVals,
     hidden_bias : EvalVals, out_bias : EvalVals, noise : {1}, keep : {1}]

ParamValue(env, name) ==
    CASE name = "in_to_hidden" -> env.in_to_hidden
      [] name = "hidden_to_out" -> env.hidden_to_out
      [] name = "hidden_bias" -> env.hidden_bias
      [] OTHER -> env.out_bias

ApplyTransfer(f, x) ==
    CASE f = "rectifier" -> IF x > 0 THEN x ELSE 0
      [] OTHER -> x

TransferSlope(f, x) ==
    CASE f = "rectifier" -> IF x > 0 THEN 1 ELSE 0
      [] OTHER -> 1

ApplyLoss(f, t, y) ==
    CASE f = "absolute" -> IF t > y THEN t - y ELSE y - t
      [] OTHER -> (t - y) * (t - y)

LossSlope(f, t, y) ==
    CASE f = "absolute" -> IF t > y THEN 1 ELSE IF t < y THEN -1 ELSE 0
      [] OTHER -> 2 * (t - y)

RECURSIVE Eval(_, _), Diff(_, _, _)
Eval(e, env) ==
    CASE e.op = "var" -> env.inpt
      [] e.op = "param" -> ParamValue(env, e.name)
      [] e.op = "const" -> e.val
      [] e.op \in {"T", "mean", "sum"} -> Eval(e.args[1], env)
      [] e.op \in {"dot", "mul"} -> Eval(e.args[1], env) * Eval(e.args[2], env)
      [] e.op = "add" -> Eval(e.args[1], env) + Eval(e.args[2], env)
      [] e.op = "sqr" -> Eval(e.args[1], env) * Eval(e.args[1], env)
      [] e.op = "transfer" -> ApplyTransfer(e.name, Eval(e.args[1], env))
      [] e.op = "lossfn" ->
            ApplyLoss(e.name, Eval(e.args[1], env), Eval(e.args[2], env))
      [] e.op = "grad" -> Diff(e.args[1], e.args[2], env)
      [] e.op = "gaussian_perturb" -> Eval(e.args[1], env) + e.val * env.noise
      [] e.op = "mask" -> Eval(e.args[1], env) * env.keep
      [] OTHER -> 0

\* T.grad(cost, wrt) at env: the derivative of term e with respect to the
\* subterm wrt.
Diff(e, wrt, env) ==
    IF e = wrt THEN 1
    ELSE CASE e.op \in {"T", "mean", "sum"} -> Diff(e.args[1], wrt, env)
           [] e.op \in {"dot", "mul"} ->
                 Diff(e.args[1], wrt, env) * Eval(e.args[2], env)
                 + Eval(e.args[1], env) * Diff(e.args[2], wrt, env)
           [] e.op = "add" -> Diff(e.args[1], wrt, env) + Diff(e.args[2], wrt, env)
           [] e.op = "sqr" -> 2 * Eval(e.args[1], env) * Diff(e.args[1], wrt, env)
           [] e.op = "transfer" ->
                 TransferSlope(e.name, Eval(e.args[1], env))
                 * Diff(e.args[1], wrt, env)
           [] e.op = "lossfn" ->
                 LossSlope(e.name, Eval(e.args[1], env), Eval(e.args[2], env))
                 * (Diff(e.args[1], wrt, env) - Diff(e.args[2], wrt, env))
           [] e.op = "gaussian_perturb" -> Diff(e.args[1], wrt, env)
           [] e.op = "mask" -> Diff(e.args[1], wrt, env) * env.keep
           [] OTHER -> 0

(***************************************************************************)
(* The two-layer template (breze.arch.model.neural.TwoLayerPerceptron).    *)
(***************************************************************************)
TwoLayerPerceptronMakeExprs(inpt, target, in_to_hidden, h2o, hidden_bias, out_bias, hidden_transfer, out_transfer, loss) ==
    LET hidden_in == Add(Dot(inpt, in_to_hidden), hidden_bias)
        hidden == Transfer(hidden_transfer, hidden_in)
        output_in == Add(Dot(hidden, h2o), out_bias)
        output == Transfer(out_transfer, output_in)
        loss_rowwise == Sum(LossFn(loss, target, output))
    IN  [r \in {"inpt", "hidden_in", "hidden", "output_in", "output",
                "loss_rowwise", "loss"} |->
            CASE r = "inpt" -> inpt
              [] r = "hidden_in" -> hidden_in
              [] r = "hidden" -> hidden
              [] r = "output_in" -> output_in
              [] r = "output" -> output
              [] r = "loss_rowwise" -> loss_rowwise
              [] OTHER -> Mean(loss_rowwise)]

(***************************************************************************)
(* AutoEncoder.                                                            *)
(***************************************************************************)
\* GetParameterSpec with hidden_to_out declared in the shape of in_to_hidden.
GetParameterSpecUntransposed(n_inpt, n_hidden, tied_weights) ==
    IF tied_weights
    THEN [n \in {"in_to_hidden", "hidden_bias", "out_bias"} |->
            CASE n = "in_to_hidden" -> <<n_inpt, n_hidden>>
              [] n = "hidden_bias" -> <<n_hidden>>
              [] OTHER -> <<n_inpt>>]
    ELSE [n \in {"in_to_hidden", "hidden_to_out", "hidden_bias", "out_bias"} |->
            CASE n = "in_to_hidden" -> <<n_inpt, n_hidden>>
              [] n = "hidden_to_out" -> <<n_inpt, n_hidden>>
              [] n = "hidden_bias" -> <<n_hidden>>
              [] OTHER -> <<n_inpt>>]

GetParameterSpec(n_inpt, n_hidden, tied_weights) ==
    IF tied_weights
    THEN [n \in {"in_to_hidden", "hidden_bias", "out_bias"} |->
            CASE n = "in_to_hidden" -> <<n_inpt, n_hidden>>
              [] n = "hidden_bias" -> <<n_hidden>>
              [] OTHER -> <<n_inpt>>]
    ELSE [n \in {"in_to_hidden", "hidden_to_out", "hidden_bias", "out_bias"} |->
            CASE n = "in_to_hidden" -> <<n_inpt, n_hidden>>
              [] n = "hidden_to_out" -> <<n_hidden, n_inpt>>
              [] n = "hidden_bias" -> <<n_hidden>>
              [] OTHER -> <<n_inpt>>]

\* The first statement of every init_exprs: which matrix decodes.
AutoEncoderDecode(tied_weights) ==
    IF tied_weights THEN Transpose(Param("in_to_hidden"))
    ELSE Param("hidden_to_out")

DenoisingDecode(tied_weights) ==
    IF tied_weights THEN Transpose(Param("in_to_hidden"))
    ELSE Param("hidden_to_out")

SparseDecode(tied_weights) ==
    IF tied_weights THEN Transpose(Param("in_to_hidden"))
    ELSE Param("hidden_to_out")

ContractiveDecode(tied_weights) ==
    IF tied_weights THEN Transpose(Param("in_to_hidden"))
    ELSE Param("hidden_to_out")

AutoEncoderMakeExprs(inpt, in_to_hidden, h2o, hidden_bias, out_bias, hidden_transfer, out_transfer, loss) ==
    TwoLayerPerceptronMakeExprs(inpt, inpt, in_to_hidden, h2o, hidden_bias,
                                out_bias, hidden_transfer, out_transfer, loss)

AutoEncoderInitExprs(c) ==
    LET ex == AutoEncoderMakeExprs(
                  Matrix("inpt"), Param("in_to_hidden"),
                  AutoEncoderDecode(c.tied_weights), Param("hidden_bias"),
                  Param("out_bias"), c.hidden_transfer, c.out_transfer, c.loss)
    IN  Put(ex, "feature", ex["hidden"])

(***************************************************************************)
(* DenoisingAutoEncoder.  make_exprs returns [err, exprs].                 *)
(***************************************************************************)
\* DenoisingMakeExprs with the template built on the corrupted input.
DenoisingMakeExprsCorruptedGraph(inpt, in_to_hidden, h2o, hidden_bias, out_bias, hidden_transfer, out_transfer, loss, noise_type, c_noise) ==
    IF noise_type \notin {"gauss", "blink"}
    THEN [err |-> "ValueError", exprs |-> NoExprs]
    ELSE
      LET corrupted == IF noise_type = "gauss"
                       THEN GaussianPerturb(inpt, c_noise)
                       ELSE Mask(inpt, c_noise)
          e0 == TwoLayerPerceptronMakeExprs(
                    corrupted, inpt, in_to_hidden, h2o, hidden_bias, out_bias,
                    hidden_transfer, out_transfer, loss)
          e1 == Put(e0, "true_loss", Clone(e0["loss"], corrupted, inpt))
          e2 == Put(e1, "inpt", inpt)
          e3 == Put(e2, "corrupted", corrupted)
      IN  [err |-> "", exprs |-> e3]

\* DenoisingMakeExprs with every unknown noise_type taken for 'blink'.
DenoisingMakeExprsDefaultNoise(inpt, in_to_hidden, h2o, hidden_bias, out_bias, hidden_transfer, out_transfer, loss, noise_type, c_noise) ==
    LET corrupted == IF noise_type = "gauss"
                     THEN GaussianPerturb(inpt, c_noise)
                     ELSE Mask(inpt, c_noise)
        e0 == TwoLayerPerceptronMakeExprs(
                  inpt, inpt, in_to_hidden, h2o, hidden_bias, out_bias,
                  hidden_transfer, out_transfer, loss)
        e1 == Put(e0, "true_loss", e0["loss"])
        e2 == Put(e1, "loss", Clone(e1["loss"], inpt, corrupted))
        e3 == Put(e2, "corrupted", corrupted)
    IN  [err |-> "", exprs |-> e3]

DenoisingMakeExprs(inpt, in_to_hidden, h2o, hidden_bias, out_bias, hidden_transfer, out_transfer, loss, noise_type, c_noise) ==
    IF noise_type \notin {"gauss", "blink"}
    THEN [err |-> "ValueError", exprs |-> NoExprs]
    ELSE
      LET corrupted == IF noise_type = "gauss"
                       THEN GaussianPerturb(inpt, c_noise)
                       ELSE Mask(inpt, c_noise)
          e0 == TwoLayerPerceptronMakeExprs(
                    inpt, inpt, in_to_hidden, h2o, hidden_bias, out_bias,
                    hidden_transfer, out_transfer, loss)
          e1 == Put(e0, "true_loss", e0["loss"])
          e2 == Put(e1, "loss", Clone(e1["loss"], inpt, corrupted))
          e3 == Put(e2, "corrupted", corrupted)
      IN  [err |-> "", exprs |-> e3]

DenoisingInitExprs(c) ==
    DenoisingMakeExprs(
        Matrix("inpt"), Param("in_to_hidden"), DenoisingDecode(c.tied_weights),
        Param("hidden_bias"), Param("out_bias"), c.hidden_transfer,
        c.out_transfer, c.loss, c.noise_type, c.c_noise)

(***************************************************************************)
(* SparseAutoEncoder.                                                      *)
(***************************************************************************)
\* SparseMakeExprs with the coefficient scaling the whole sum.
SparseMakeExprsScaledSum(inpt, in_to_hidden, h2o, hidden_bias, out_bias, hidden_transfer, out_transfer, loss, sparsity_loss, c_sparsity, sparsity_target) ==
    LET e0 == AutoEncoderMakeExprs(inpt, in_to_hidden, h2o, hidden_bias,
                                   out_bias, hidden_transfer, out_transfer, loss)
        hidden == e0["hidden"]
        penalty == Sum(LossFn(sparsity_loss, Const(sparsity_target), Mean(hidden)))
        e1 == Put(e0, "sparsity_loss", penalty)
        e2 == Put(e1, "reconstruct_loss_rowwise", e1["loss_rowwise"])
        e3 == Del(e2, "loss_rowwise")
        e4 == Put(e3, "reconstruct_loss", e3["loss"])
    IN  Put(e4, "loss", Mul(Const(c_sparsity), Add(e4["reconstruct_loss"], penalty)))

SparseMakeExprs(inpt, in_to_hidden, h2o, hidden_bias, out_bias, hidden_transfer, out_transfer, loss, sparsity_loss, c_sparsity, sparsity_target) ==
    LET e0 == AutoEncoderMakeExprs(inpt, in_to_hidden, h2o, hidden_bias,
                                   out_bias, hidden_transfer, out_transfer, loss)
        hidden == e0["hidden"]
        penalty == Sum(LossFn(sparsity_loss, Const(sparsity_target), Mean(hidden)))
        e1 == Put(e0, "sparsity_loss", penalty)
        e2 == Put(e1, "reconstruct_loss_rowwise", e1["loss_rowwise"])
        e3 == Del(e2, "loss_rowwise")
        e4 == Put(e3, "reconstruct_loss", e3["loss"])
    IN  Put(e4, "loss", Add(e4["reconstruct_loss"], Mul(Const(c_sparsity), penalty)))

SparseInitExprs(c) ==
    SparseMakeExprs(
        Matrix("inpt"), Param("in_to_hidden"), SparseDecode(c.tied_weights),
        Param("hidden_bias"), Param("out_bias"), c.hidden_transfer,
        c.out_transfer, c.loss, c.sparsity_loss, c.c_sparsity, c.sparsity_target)

(***************************************************************************)
(* ContractiveAutoEncoder.                                                 *)
(***************************************************************************)
ContractiveMakeExprs(inpt, in_to_hidden, h2o, hidden_bias, out_bias, hidden_transfer, out_transfer, loss, c_jacobian) ==
    LET e0 == AutoEncoderMakeExprs(inpt, in_to_hidden, h2o, hidden_bias,
                                   out_bias, hidden_transfer, out_transfer, loss)
        hidden == e0["hidden"]
        hidden_in == e0["hidden_in"]
        d_h_d_h_in == Grad(Sum(Mean(hidden)), hidden_in)
        jacobian_loss == Sum(Mul(Mean(Sqr(d_h_d_h_in)), Sqr(in_to_hidden)))
        e1 == Put(e0, "jacobian_loss", jacobian_loss)
        e2 == Put(e1, "reconstruct_loss_rowwise", e1["loss_rowwise"])
        e3 == Put(e2, "reconstruct_loss", e2["loss"])
        e4 == Del(e3, "loss_rowwise")
    IN  Put(e4, "loss",
            Add(e4["reconstruct_loss"], Mul(Const(c_jacobian), jacobian_loss)))

ContractiveInitExprs(c) ==
    ContractiveMakeExprs(
        Matrix("inpt"), Param("in_to_hidden"), ContractiveDecode(c.tied_weights),
        Param("hidden_bias"), Param("out_bias"), c.hidden_transfer,
        c.out_transfer, c.loss, c.c_jacobian)

(***************************************************************************)
(* Constructor arguments.  One record shape serves every class; a field a  *)
(* class does not take keeps the value it has here.  max_length is <<>>    *)
(* for None and <<L>> for the number L; rates are in tenths.               *)
(***************************************************************************)
NoCfg ==
    [n_inpt |-> 0, n_hidden |-> 0, tied_weights |-> FALSE,
     hidden_transfer |-> "", out_transfer |-> "", loss |-> "",
     noise_type |-> "", c_noise |-> 0,
     c_sparsity |-> 0, sparsity_loss |-> "", sparsity_target |-> 0,
     c_jacobian |-> 0,
     n_hiddens |-> <<>>, n_output |-> 0,
     p_dropout_inpt |-> 0, p_dropout_hidden |-> 0,
     max_length |-> <<>>, max_iter |-> 0]

NoParameters == [n \in {} |-> <<>>]

Transfers == {"identity", "rectifier"}
Losses == {"squared", "absolute"}
NoiseTypes == {"gauss", "blink", "salt"}
Coefficients == {0, 1, 2}

AutoEncoderArgs ==
    {[NoCfg EXCEPT !.n_inpt = a[1], !.n_hidden = a[2], !.tied_weights = a[3],
                   !.hidden_transfer = a[4], !.out_transfer = "identity",
                   !.loss = "squared"] :
        a \in Dims \X Dims \X BOOLEAN \X Transfers}

\* No schedules made yet.
NoSched ==
    [made |-> FALSE, steprate_0 |-> 0, steprate_decay |-> 0, momentum_0 |-> 0,
     momentum_eq |-> 0, n_momentum_anneal_steps |-> 0, n_repeats |-> 0,
     under |-> 0, rep |-> 0, steprates |-> <<>>, momentums |-> <<>>]

Init ==
    /\ kind = "none"
    /\ err = ""
    /\ cfg = NoCfg
    /\ parspec = NoParameters
    /\ hidden_to_out = NoTerm
    /\ exprs = NoExprs
    /\ parameters = NoParameters
    /\ pc = "none"
    /\ f_loss = NoTerm
    /\ n_updates = 0
    /\ records = <<>>
    /\ opt_ended = FALSE
    /\ projected = <<>>
    /\ sched = NoSched

mlpVars == <<parameters, pc, f_loss, n_updates, records, opt_ended, projected>>

\* AutoEncoder.__init__, with the init_pars and init_exprs it runs.
AutoEncoderInit ==
    /\ kind = "none"
    /\ \E c \in AutoEncoderArgs :
        /\ kind' = "AutoEncoder"
        /\ cfg' = c
        /\ parspec' = GetParameterSpec(c.n_inpt, c.n_hidden, c.tied_weights)
        /\ hidden_to_out' = AutoEncoderDecode(c.tied_weights)
        /\ exprs' = AutoEncoderInitExprs(c)
    /\ UNCHANGED <<err, mlpVars, sched>>

\* DenoisingAutoEncoder.__init__: init_exprs stores what make_exprs returns,
\* and the constructor ends with make_exprs' exception when it raises.
DenoisingInit ==
    /\ kind = "none"
    /\ \E a \in AutoEncoderArgs, noise_type \in NoiseTypes, c_noise \in {0, 1} :
        LET c == [a EXCEPT !.noise_type = noise_type, !.c_noise = c_noise]
            made == DenoisingInitExprs(c)
        IN  /\ kind' = "DenoisingAutoEncoder"
            /\ cfg' = c
            /\ parspec' = GetParameterSpec(c.n_inpt, c.n_hidden, c.tied_weights)
            /\ hidden_to_out' = DenoisingDecode(c.tied_weights)
            /\ err' = made.err
            /\ exprs' = IF made.err = "" THEN made.exprs ELSE exprs
    /\ UNCHANGED <<mlpVars, sched>>

SparseInit ==
    /\ kind = "none"
    /\ \E a \in AutoEncoderArgs, c_sparsity \in Coefficients,
          sparsity_loss \in Losses, sparsity_target \in {0, 1} :
        LET c == [a EXCEPT !.c_sparsity = c_sparsity,
                           !.sparsity_loss = sparsity_loss,
                           !.sparsity_target = sparsity_target]
        IN  /\ kind' = "SparseAutoEncoder"
            /\ cfg' = c
            /\ parspec' = GetParameterSpec(c.n_inpt, c.n_hidden, c.tied_weights)
            /\ hidden_to_out' = SparseDecode(c.tied_weights)
            /\ exprs' = SparseInitExprs(c)
    /\ UNCHANGED <<err, mlpVars, sched>>

ContractiveInit ==
    /\ kind = "none"
    /\ \E a \in AutoEncoderArgs, c_jacobian \in Coefficients :
        LET c == [a EXCEPT !.c_jacobian = c_jacobian]
        IN  /\ kind' = "ContractiveAutoEncoder"
            /\ cfg' = c
            /\ parspec' = GetParameterSpec(c.n_inpt, c.n_hidden, c.tied_weights)
            /\ hidden_to_out' = ContractiveDecode(c.tied_weights)
            /\ exprs' = ContractiveInitExprs(c)
    /\ UNCHANGED <<err, mlpVars, sched>>

(***************************************************************************)
(* Multilayer perceptrons: parameter tables.  A matrix is the sequence of  *)
(* its columns, a bias vector a single column.                             *)
(***************************************************************************)
HiddenNames == <<"hidden_0", "hidden_1", "hidden_2">>
HiddenToHiddenNames == <<"hidden_to_hidden_0", "hidden_to_hidden_1">>
HiddenBiasNames == <<"hidden_bias_0", "hidden_bias_1", "hidden_bias_2">>

WeightVals == {1, 2}
BiasVals == {0, 1}

Matrices(rows, cols, vals) == [1..cols -> [1..rows -> vals]]

\* The parameter tables of a perceptron with one or two hidden layers.
Tables(c, wvals, bvals) ==
    IF Len(c.n_hiddens) = 1
    THEN [in_to_hidden : Matrices(c.n_inpt, c.n_hiddens[1], wvals),
          hidden_to_out : Matrices(c.n_hiddens[1], c.n_output, wvals),
          hidden_bias_0 : Matrices(c.n_hiddens[1], 1, bvals),
          out_bias : Matrices(c.n_output, 1, bvals)]
    ELSE [in_to_hidden : Matrices(c.n_inpt, c.n_hiddens[1], wvals),
          hidden_to_hidden_0 : Matrices(c.n_hiddens[1], c.n_hiddens[2], wvals),
          hidden_to_out : Matrices(c.n_hiddens[2], c.n_output, wvals),
          hidden_bias_0 : Matrices(c.n_hiddens[1], 1, bvals),
          hidden_bias_1 : Matrices(c.n_hiddens[2], 1, bvals),
          out_bias : Matrices(c.n_output, 1, bvals)]

\* The graph of MultiLayerPerceptron: layer i reads layer i - 1.
RECURSIVE MlpHidden(_, _)
MlpHidden(c, i) ==
    LET below == IF i = 0 THEN Matrix("inpt") ELSE MlpHidden(c, i - 1)
        weights == IF i = 0 THEN Param("in_to_hidden")
                   ELSE Param(HiddenToHiddenNames[i])
    IN  Transfer(c.hidden_transfer,
                 Add(Dot(below, weights), Param(HiddenBiasNames[i + 1])))

MlpExprs(c) ==
    LET n == Len(c.n_hiddens)
        output == Transfer(c.out_transfer,
                           Add(Dot(MlpHidden(c, n - 1), Param("hidden_to_out")),
                               Param("out_bias")))
        loss == Mean(Sum(LossFn(c.loss, Matrix("target"), output)))
        hiddens == {HiddenNames[i] : i \in 1..n}
    IN  [r \in {"inpt", "target", "output", "loss"} \cup hiddens |->
            CASE r = "inpt" -> Matrix("inpt")
              [] r = "target" -> Matrix("target")
              [] r = "output" -> output
              [] r = "loss" -> loss
              [] OTHER -> MlpHidden(c, (CHOOSE i \in 1..n : HiddenNames[i] = r) - 1)]

(***************************************************************************)
(* climin.project.max_length_columns: a column whose squared length        *)
(* exceeds max_length is scaled down until it does not.                    *)
(***************************************************************************)
RECURSIVE SumSquares(_, _)
SumSquares(col, i) ==
    IF i = 0 THEN 0 ELSE col[i] * col[i] + SumSquares(col, i - 1)

SqLen(col) == SumSquares(col, Len(col))

RECURSIVE Rescaled(_, _, _)
Rescaled(col, d, max_length) ==
    LET scaled == [i \in DOMAIN col |-> col[i] \div d]
    IN  IF SqLen(scaled) <= max_length THEN scaled
        ELSE Rescaled(col, d + 1, max_length)

MaxLengthColumns(W, max_length) ==
    [j \in DOMAIN W |-> Rescaled(W[j], 1, max_length)]

WithinMaxLength(W, max_length) == \A j \in DOMAIN W : SqLen(W[j]) <= max_length

\* max_length_columns applied to the named parameters, in order.
RECURSIVE ProjectNamed(_, _, _)
ProjectNamed(P, names, max_length) ==
    IF names = <<>> THEN P
    ELSE ProjectNamed(
             [P EXCEPT ![Head(names)] = MaxLengthColumns(@, max_length)],
             Tail(names), max_length)

(***************************************************************************)
(* DropoutMlp.                                                             *)
(***************************************************************************)
\* The loop of _make_loss_functions over the hidden layers but the last.
RECURSIVE DropOutHidden(_, _, _, _)
DropOutHidden(loss, ex, c, i) ==
    IF i >= Len(c.n_hiddens) - 1 THEN loss
    ELSE LET hidden == ex[HiddenNames[i + 1]]
             hidden_dropped_out == Mask(hidden, c.p_dropout_hidden)
         IN  DropOutHidden(Clone(loss, hidden, hidden_dropped_out), ex, c, i + 1)

\* DropoutMakeLossFunctions storing the masked loss back into self.exprs.
DropoutMakeLossFunctionsInPlace(ex, c) ==
    LET inpt == ex["inpt"]
        inpt_dropped_out == Mask(inpt, c.p_dropout_inpt)
        loss == Clone(ex["loss"], inpt, inpt_dropped_out)
    IN  [f_loss |-> DropOutHidden(loss, ex, c, 0),
         exprs |-> Put(ex, "loss", DropOutHidden(loss, ex, c, 0))]

\* _make_loss_functions: the loss term it compiles into f_loss (and
\* differentiates into f_d_loss), and self.exprs as the call leaves it.
DropoutMakeLossFunctions(ex, c) ==
    LET inpt == ex["inpt"]
        inpt_dropped_out == Mask(inpt, c.p_dropout_inpt)
        loss == Clone(ex["loss"], inpt, inpt_dropped_out)
    IN  [f_loss |-> DropOutHidden(loss, ex, c, 0), exprs |-> ex]

\* DropoutProjectionNames without the output weights.
DropoutProjectionNamesHiddenOnly(c) ==
    <<"in_to_hidden">>
    \o [i \in 1..(Len(c.n_hiddens) - 1) |-> HiddenToHiddenNames[i]]

\* The parameters the projection pass of DropoutMlp.iter_fit names.
DropoutProjectionNames(c) ==
    <<"in_to_hidden">>
    \o [i \in 1..(Len(c.n_hiddens) - 1) |-> HiddenToHiddenNames[i]]
    \o <<"hidden_to_out">>

\* One pull from the climin optimizer after k updates: its sequence has
\* ended (exhausted, which stops the loop), or it applies one update to the
\* table in place and hands out a step record.
OptimizerPulls(c, P, k) ==
    {[stop |-> TRUE, exhausted |-> TRUE, parameters |-> P, info |-> [n_iter |-> k]]}
    \cup IF k < MaxSteps
         THEN {[stop |-> FALSE, exhausted |-> FALSE, parameters |-> Q,
                info |-> [n_iter |-> k + 1]] :
                  Q \in Tables(c, WeightVals, BiasVals)}
         ELSE {}

\* DropoutLoopPulls cut off after max_iter records.
DropoutLoopPullsCapped(c, P, k) ==
    IF k >= c.max_iter
    THEN {[stop |-> TRUE, exhausted |-> FALSE, parameters |-> P,
           info |-> [n_iter |-> k]]}
    ELSE OptimizerPulls(c, P, k)

\* The sequence the loop of DropoutMlp.iter_fit runs over: enumerate(opt).
DropoutLoopPulls(c, P, k) == OptimizerPulls(c, P, k)

MlpArgs ==
    {[NoCfg EXCEPT !.n_inpt = 1, !.n_hiddens = a[1], !.n_output = 1,
                   !.hidden_transfer = "rectifier", !.out_transfer = "identity",
                   !.loss = "squared", !.max_length = a[2], !.max_iter = 1] :
        a \in {<<2>>, <<1, 1>>} \X {<<>>, <<2>>}}

\* DropoutMlp.__init__ (with Mlp.__init__): no check of the rates.
DropoutMlpInit ==
    /\ kind = "none"
    /\ \E a \in MlpArgs : \E P \in Tables(a, {1}, BiasVals) :
        LET c == [a EXCEPT !.p_dropout_inpt = 2, !.p_dropout_hidden = 5]
        IN  /\ kind' = "DropoutMlp"
            /\ cfg' = c
            /\ exprs' = MlpExprs(c)
            /\ parameters' = P
    /\ UNCHANGED <<err, parspec, hidden_to_out, pc, f_loss, n_updates, records,
                   opt_ended, projected, sched>>

\* A call of DropoutMlp.iter_fit: a new generator, none of its body run.
DropoutIterFit ==
    /\ kind = "DropoutMlp"
    /\ pc' = "created"
    /\ f_loss' = NoTerm
    /\ n_updates' = 0
    /\ records' = <<>>
    /\ opt_ended' = FALSE
    /\ projected' = <<>>
    /\ UNCHANGED <<kind, err, cfg, parspec, hidden_to_out, exprs, parameters, sched>>

\* The caller asks the generator of DropoutMlp.iter_fit for its next record:
\* the body runs from where it stood to its next yield or to its end.
DropoutIterFitNext ==
    /\ kind = "DropoutMlp"
    /\ pc \in {"created", "yielded"}
    /\ LET first == pc = "created"
           project == ~first /\ cfg.max_length # <<>>
           names == IF project THEN DropoutProjectionNames(cfg) ELSE <<>>
           P == IF project
                THEN ProjectNamed(parameters, names, cfg.max_length[1])
                ELSE parameters
           made == DropoutMakeLossFunctions(exprs, cfg)
       IN  /\ f_loss' = IF first THEN made.f_loss ELSE f_loss
           /\ exprs' = IF first THEN made.exprs ELSE exprs
           /\ projected' = names
           /\ \E pull \in DropoutLoopPulls(cfg, P, n_updates) :
                /\ parameters' = pull.parameters
                /\ opt_ended' = pull.exhausted
                /\ IF pull.stop
                   THEN /\ pc' = "done"
                        /\ UNCHANGED <<n_updates, records>>
                   ELSE /\ pc' = "yielded"
                        /\ n_updates' = n_updates + 1
                        /\ records' = Append(records, pull.info)
    /\ UNCHANGED <<kind, err, cfg, parspec, hidden_to_out, sched>>

(***************************************************************************)
(* FastDropoutNetwork.                                                     *)
(***************************************************************************)
Rates == {0, 5, 10}
DefaultRates == {5}

\* 0 < p < 1, p in tenths.
InUnitInterval(p) == 0 < p /\ p < 10

\* The guard of the raise statement of FastDropoutNetwork.__init__.
RatesRejected(p_dropout_inpt, p_dropout_hidden) ==
    ~InUnitInterval(p_dropout_inpt) /\ ~InUnitInterval(p_dropout_hidden)

\* FastDropoutNetwork.__init__ for rates drawn from the given set.
FastDropoutNetworkInit(rates) ==
    /\ kind = "none"
    /\ \E a \in MlpArgs, p_inpt \in rates, p_hidden \in rates :
        LET c == [a EXCEPT !.p_dropout_inpt = p_inpt,
                           !.p_dropout_hidden = p_hidden]
        IN  /\ kind' = "FastDropoutNetwork"
            /\ cfg' = c
            /\ IF RatesRejected(p_inpt, p_hidden)
               THEN /\ err' = "ValueError"
                    /\ UNCHANGED <<exprs, parameters>>
               ELSE /\ err' = ""
                    /\ exprs' = MlpExprs(c)
                    /\ parameters' \in Tables(c, WeightVals, BiasVals)
    /\ UNCHANGED <<parspec, hidden_to_out, pc, f_loss, n_updates, records,
                   opt_ended, projected, sched>>

\* The parameters the projection pass of FastDropoutNetwork.iter_fit names.
FastDropoutProjectionNames(c) ==
    <<"in_to_hidden">>
    \o [i \in 1..(Len(c.n_hiddens) - 1) |-> HiddenToHiddenNames[i]]
    \o <<"hidden_to_out">>

\* The loss the inherited _make_loss_functions compiles: the graph's own.
SupervisedMakeLossFunctions(ex) == ex["loss"]

\* A call of FastDropoutNetwork.iter_fit: a new generator, not yet run.
FastDropoutIterFit ==
    /\ kind = "FastDropoutNetwork"
    /\ err = ""
    /\ pc' = "created"
    /\ f_loss' = NoTerm
    /\ n_updates' = 0
    /\ records' = <<>>
    /\ opt_ended' = FALSE
    /\ projected' = <<>>
    /\ UNCHANGED <<kind, err, cfg, parspec, hidden_to_out, exprs, parameters, sched>>

\* The caller asks the generator of FastDropoutNetwork.iter_fit for its next
\* record: after a yield the projection pass runs, then the inherited
\* iter_fit is asked for its next record (one optimizer step).
FastDropoutIterFitNext ==
    /\ kind = "FastDropoutNetwork"
    /\ pc \in {"created", "yielded"}
    /\ LET first == pc = "created"
           project == ~first /\ cfg.max_length # <<>>
           names == IF project THEN FastDropoutProjectionNames(cfg) ELSE <<>>
           P == IF project
                THEN ProjectNamed(parameters, names, cfg.max_length[1])
                ELSE parameters
       IN  /\ f_loss' = IF first THEN SupervisedMakeLossFunctions(exprs)
                        ELSE f_loss
           /\ projected' = names
           /\ \E pull \in OptimizerPulls(cfg, P, n_updates) :
                /\ parameters' = pull.parameters
                /\ opt_ended' = pull.exhausted
                /\ IF pull.stop
                   THEN /\ pc' = "done"
                        /\ UNCHANGED <<n_updates, records>>
                   ELSE /\ pc' = "yielded"
                        /\ n_updates' = n_updates + 1
                        /\ records' = Append(records, pull.info)
    /\ UNCHANGED <<kind, err, cfg, parspec, hidden_to_out, exprs, sched>>

(***************************************************************************)
(* dropout_optimizer_conf and the climin schedules it combines.  Momentum  *)
(* is in tenths, so 1 - momentum reads 10 - momentum.                      *)
(***************************************************************************)
RECURSIVE Power(_, _)
Power(b, i) == IF i = 0 THEN 1 ELSE b * Power(b, i - 1)

\* climin.gd.decaying(start, decay): element i is start * decay ** i.
Decaying(start, decay, i) == start * Power(decay, i)

\* climin.gd.linear_annealing(start, stop, n_steps): n_steps elements rising
\* by (stop - start) / n_steps, then stop for ever.
LinearAnnealing(start, stop, n_steps, i) ==
    IF i < n_steps THEN start + i * ((stop - start) \div n_steps) ELSE stop

\* Element i of the generator ((1 - j) * i for i, j in izip(steprate, momentum2)).
DampedSteprate(c, i) ==
    (10 - LinearAnnealing(c.momentum_0, c.momentum_eq, c.n_momentum_anneal_steps, i))
    * Decaying(c.steprate_0, c.steprate_decay, i)

\* RepeaterNext staying on element n for ever once it is reached.
RepeaterNextClamped(under, reps, n) ==
    IF under < n + 1
    THEN [under |-> under + 1, rep |-> 1]
    ELSE [under |-> under, rep |-> reps + 1]

\* climin.gd.repeater(iter, n), one request: each element of iter is
\* yielded n times before the next one is taken.  under counts the elements
\* taken from iter, rep the yields of the current one.
RepeaterNext(under, reps, n) ==
    IF under = 0 \/ reps = n
    THEN [under |-> under + 1, rep |-> 1]
    ELSE [under |-> under, rep |-> reps + 1]

DropoutOptimizerConf ==
    /\ ~sched.made
    /\ \E steprate_0 \in {1, 2}, steprate_decay \in {0, 1, 2},
          n_momentum_anneal_steps \in {1, 2, 4}, n_repeats \in {1, 2} :
        sched' = [NoSched EXCEPT !.made = TRUE,
                                 !.steprate_0 = steprate_0,
                                 !.steprate_decay = steprate_decay,
                                 !.momentum_0 = 5,
                                 !.momentum_eq = 9,
                                 !.n_momentum_anneal_steps = n_momentum_anneal_steps,
                                 !.n_repeats = n_repeats]
    /\ UNCHANGED <<kind, err, cfg, parspec, hidden_to_out, exprs, mlpVars>>

\* The optimizer asks both schedules for their next element.
ScheduleDraw ==
    /\ sched.made
    /\ Len(sched.steprates) < MaxDraws
    /\ LET at == RepeaterNext(sched.under, sched.rep, sched.n_repeats)
       IN  sched' = [sched EXCEPT
                !.under = at.under,
                !.rep = at.rep,
                !.steprates = Append(@, DampedSteprate(sched, at.under - 1)),
                !.momentums = Append(@, LinearAnnealing(
                                  sched.momentum_0, sched.momentum_eq,
                                  sched.n_momentum_anneal_steps, at.under - 1))]
    /\ UNCHANGED <<kind, err, cfg, parspec, hidden_to_out, exprs, mlpVars>>

(***************************************************************************)
(* Specifications.  Spec: construction and training, fast dropout built    *)
(* with its default rates.  SpecConstruct: construction alone, over every  *)
(* rate.                                                                   *)
(***************************************************************************)
Next ==
    \/ AutoEncoderInit
    \/ DenoisingInit
    \/ SparseInit
    \/ ContractiveInit
    \/ DropoutMlpInit
    \/ FastDropoutNetworkInit(DefaultRates)
    \/ DropoutIterFit
    \/ DropoutIterFitNext
    \/ FastDropoutIterFit
    \/ FastDropoutIterFitNext

Spec == Init /\ [][Next]_vars

NextConstruct ==
    \/ AutoEncoderInit
    \/ DenoisingInit
    \/ SparseInit
    \/ ContractiveInit
    \/ DropoutMlpInit
    \/ FastDropoutNetworkInit(Rates)

SpecConstruct == Init /\ [][NextConstruct]_vars

NextSchedule ==
    \/ DropoutOptimizerConf
    \/ ScheduleDraw

SpecSchedule == Init /\ [][NextSchedule]_vars

(***************************************************************************)
(* Properties of the autoencoder family.                                   *)
(***************************************************************************)
AutoEncoderKinds ==
    {"AutoEncoder", "DenoisingAutoEncoder", "SparseAutoEncoder",
     "ContractiveAutoEncoder"}

\* The graph the two-layer template builds for the stored arguments, with
\* the decode matrix init_exprs chose.
BaseGraph ==
    TwoLayerPerceptronMakeExprs(
        Matrix("inpt"), Matrix("inpt"), Param("in_to_hidden"), hidden_to_out,
        Param("hidden_bias"), Param("out_bias"), cfg.hidden_transfer,
        cfg.out_transfer, cfg.loss)

\* C4: for every autoencoder variant, tied weights declare exactly
\* in_to_hidden (n_inpt, n_hidden), hidden_bias and out_bias and decode with
\* the transpose of in_to_hidden; untied weights add hidden_to_out
\* (n_hidden, n_inpt) and decode with that slot.
C4_TiedWeightsSpec ==
    kind \in AutoEncoderKinds =>
        /\ parspec["in_to_hidden"] = <<cfg.n_inpt, cfg.n_hidden>>
        /\ parspec["hidden_bias"] = <<cfg.n_hidden>>
        /\ parspec["out_bias"] = <<cfg.n_inpt>>
        /\ cfg.tied_weights =>
            /\ DOMAIN parspec = {"in_to_hidden", "hidden_bias", "out_bias"}
            /\ hidden_to_out = Transpose(Param("in_to_hidden"))
        /\ ~cfg.tied_weights =>
            /\ DOMAIN parspec =
                   {"in_to_hidden", "hidden_to_out", "hidden_bias", "out_bias"}
            /\ parspec["hidden_to_out"] = <<cfg.n_hidden, cfg.n_inpt>>
            /\ hidden_to_out = Param("hidden_to_out")
        /\ err = "" => exprs["output_in"] =
                           Add(Dot(exprs["hidden"], hidden_to_out), Param("out_bias"))

C4_Witness ==
    /\ kind = "ContractiveAutoEncoder"
    /\ ~cfg.tied_weights
    /\ cfg.n_inpt = 1 /\ cfg.n_hidden = 2
    /\ parspec["hidden_to_out"] = <<2, 1>>

\* C5 (as claimed): after init_exprs of any autoencoder variant the graph
\* holds the role feature, bound to the expression of the role hidden.
C5_FeatureAlias ==
    (kind \in AutoEncoderKinds /\ err = "") =>
        /\ "feature" \in DOMAIN exprs
        /\ exprs["feature"] = exprs["hidden"]

PenaltyRole == IF kind = "SparseAutoEncoder" THEN "sparsity_loss" ELSE "jacobian_loss"

PenaltyCoefficient ==
    IF kind = "SparseAutoEncoder" THEN cfg.c_sparsity ELSE cfg.c_jacobian

\* C6: the sparse and the contractive builder keep the base loss under
\* reconstruct_loss and the base loss_rowwise under reconstruct_loss_rowwise
\* (loss_rowwise removed); the final loss is reconstruct_loss + c * penalty,
\* so with c = 0 it evaluates to reconstruct_loss for every input and
\* every parameter value.
C6_PenaltyOnly ==
    kind \in {"SparseAutoEncoder", "ContractiveAutoEncoder"} =>
        /\ exprs["reconstruct_loss"] = BaseGraph["loss"]
        /\ exprs["reconstruct_loss_rowwise"] = BaseGraph["loss_rowwise"]
        /\ "loss_rowwise" \notin DOMAIN exprs
        /\ exprs["loss"] = Add(exprs["reconstruct_loss"],
                               Mul(Const(PenaltyCoefficient), exprs[PenaltyRole]))
        /\ \A env \in Envs :
              LET total == Eval(exprs["loss"], env)
                  reconstruct == Eval(exprs["reconstruct_loss"], env)
                  penalty == Eval(exprs[PenaltyRole], env)
              IN  /\ total = reconstruct + PenaltyCoefficient * penalty
                  /\ PenaltyCoefficient = 0 => total = reconstruct

C6_Witness ==
    /\ kind = "ContractiveAutoEncoder"
    /\ cfg.c_jacobian = 0
    /\ \E env \in Envs :
          /\ Eval(exprs["jacobian_loss"], env) > 0
          /\ Eval(exprs["loss"], env) = Eval(exprs["reconstruct_loss"], env)

CleanRoles == {"hidden_in", "hidden", "output", "loss_rowwise", "inpt"}

\* C7: the denoising builder substitutes corrupted for inpt in the loss
\* only: true_loss is the clean-path loss (the plain autoencoder's loss),
\* loss is a new expression derived from it, and hidden_in, hidden, output,
\* loss_rowwise and inpt stay bound to their clean-path expressions.
C7_SubstitutionInLossOnly ==
    (kind = "DenoisingAutoEncoder" /\ err = "") =>
        /\ exprs["true_loss"] = BaseGraph["loss"]
        /\ exprs["true_loss"] = AutoEncoderInitExprs(cfg)["loss"]
        /\ exprs["loss"] = Clone(BaseGraph["loss"], Matrix("inpt"), exprs["corrupted"])
        /\ exprs["loss"] # exprs["true_loss"]
        /\ ~Occurs(exprs["corrupted"], exprs["true_loss"])
        /\ \A r \in CleanRoles :
              /\ exprs[r] = BaseGraph[r]
              /\ ~Occurs(exprs["corrupted"], exprs[r])

C7_Witness ==
    /\ kind = "DenoisingAutoEncoder"
    /\ err = ""
    /\ cfg.noise_type = "blink"
    /\ Occurs(Mask(Matrix("inpt"), cfg.c_noise), exprs["loss"])
    /\ ~Occurs(Mask(Matrix("inpt"), cfg.c_noise), exprs["hidden"])

\* C8: DenoisingAutoEncoder.make_exprs ends with ValueError for every
\* noise_type other than 'gauss' and 'blink', with no graph returned or
\* stored, and never does so for 'gauss' and 'blink'.
C8_UnknownNoiseType ==
    kind = "DenoisingAutoEncoder" =>
        /\ cfg.noise_type \notin {"gauss", "blink"} =>
              /\ err = "ValueError"
              /\ exprs = NoExprs
              /\ DenoisingInitExprs(cfg).exprs = NoExprs
        /\ cfg.noise_type \in {"gauss", "blink"} =>
              /\ err = ""
              /\ exprs = DenoisingInitExprs(cfg).exprs
              /\ "loss" \in DOMAIN exprs

C8_Witness ==
    /\ kind = "DenoisingAutoEncoder"
    /\ cfg.noise_type = "salt"
    /\ err = "ValueError"
    /\ exprs = NoExprs

(***************************************************************************)
(* Properties of the training wrappers.                                    *)
(***************************************************************************)
\* The weight matrices of the perceptron under training.
WeightNames == {n \in DOMAIN parameters : n \notin {"out_bias"} \cup Range(HiddenBiasNames)}

\* C1 (as claimed): with max_length = L set, at every yield point of
\* DropoutMlp.iter_fit and FastDropoutNetwork.iter_fit every column of
\* in_to_hidden, of every hidden_to_hidden_i and of hidden_to_out has
\* squared length <= L.
C1_ProjectedAtYield ==
    (kind \in {"DropoutMlp", "FastDropoutNetwork"} /\ pc = "yielded"
       /\ cfg.max_length # <<>>) =>
        \A n \in WeightNames : WithinMaxLength(parameters[n], cfg.max_length[1])

\* C2 (as claimed): constructing a FastDropoutNetwork ends with ValueError
\* whenever p_dropout_inpt or p_dropout_hidden is not strictly between 0
\* and 1, with no model state set up, and passes when both rates are.
C2_RatesValidated ==
    kind = "FastDropoutNetwork" =>
        IF InUnitInterval(cfg.p_dropout_inpt) /\ InUnitInterval(cfg.p_dropout_hidden)
        THEN err = ""
        ELSE err = "ValueError" /\ parameters = NoParameters /\ exprs = NoExprs

\* C3: DropoutMlp.iter_fit yields one record per optimizer step, in the
\* optimizer's order: with the k-th record yielded exactly k updates have
\* been applied; the generator ends only when the optimizer's sequence
\* does, whatever max_iter is.
C3_OneRecordPerStep ==
    kind = "DropoutMlp" =>
        /\ Len(records) = n_updates
        /\ \A k \in 1..Len(records) : records[k].n_iter = k
        /\ pc = "yielded" => n_updates >= 1 /\ ~opt_ended
        /\ pc = "done" => opt_ended

C3_Witness ==
    /\ kind = "DropoutMlp"
    /\ pc = "yielded"
    /\ Len(records) = 2
    /\ n_updates = 2
    /\ cfg.max_iter < Len(records)

\* C10: no step taken on a DropoutMlp (a call of iter_fit, the derivation
\* of the masked loss, an iteration) rebinds a role of self.exprs, and the
\* masked loss is a term of its own, not the graph's loss.
C10_SourceGraphKept ==
    [][kind = "DropoutMlp" =>
          /\ exprs' = exprs
          /\ f_loss' # NoTerm =>
                /\ f_loss' # exprs'["loss"]
                /\ \A r \in DOMAIN exprs' :
                      ~Occurs(Mask(Matrix("inpt"), cfg.p_dropout_inpt), exprs'[r])]_vars

C10_Witness ==
    /\ kind = "DropoutMlp"
    /\ pc = "yielded"
    /\ Len(cfg.n_hiddens) = 2
    /\ Occurs(Mask(Matrix("inpt"), cfg.p_dropout_inpt), f_loss)
    /\ exprs["loss"] = MlpExprs(cfg)["loss"]

(***************************************************************************)
(* Properties of the masked training loss.                                 *)
(***************************************************************************)
\* The terms that stand under a mask of rate p somewhere in term e.
RECURSIVE MaskedTerms(_, _)
MaskedTerms(e, p) ==
    (IF e.op = "mask" /\ e.val = p THEN {e.args[1]} ELSE {})
    \cup UNION {MaskedTerms(e.args[i], p) : i \in DOMAIN e.args}

\* The transfer nodes of term e: one for each layer output the term reads.
RECURSIVE LayerOutputs(_)
LayerOutputs(e) ==
    (IF e.op = "transfer" THEN {e} ELSE {})
    \cup UNION {LayerOutputs(e.args[i]) : i \in DOMAIN e.args}

\* C11 (as claimed): the training loss of a DropoutMlp with n hidden layers
\* has a mask of rate p_dropout_inpt on the role inpt and a mask of rate
\* p_dropout_hidden on each of hidden_0 .. hidden_{n-2}, one per role, and
\* none on hidden_{n-1}: n - 1 layer outputs stand under a hidden mask.
C11_HiddenLayersMasked ==
    (kind = "DropoutMlp" /\ f_loss # NoTerm) =>
        /\ MaskedTerms(f_loss, cfg.p_dropout_inpt) = {exprs["inpt"]}
        /\ Cardinality(MaskedTerms(f_loss, cfg.p_dropout_hidden))
              = Len(cfg.n_hiddens) - 1
        /\ MaskedTerms(f_loss, cfg.p_dropout_hidden) \subseteq LayerOutputs(f_loss)


(***************************************************************************)
(* Properties of the projection pass.  A generator resumed after a yield   *)
(* whose optimizer has ended runs the projection pass and nothing else, so *)
(* that step shows the table exactly as the pass leaves it.                *)
(***************************************************************************)
\* The weight matrices of a perceptron with the hidden layers of c.
ProjectedWeights(c) ==
    {"in_to_hidden", "hidden_to_out"}
    \cup {HiddenToHiddenNames[i] : i \in 1..(Len(c.n_hiddens) - 1)}

\* C12: a projection pass of DropoutMlp.iter_fit or of
\* FastDropoutNetwork.iter_fit names in_to_hidden, hidden_to_hidden_0 ..
\* hidden_to_hidden_{n-2} and hidden_to_out, each once, rescales the columns
\* of these and leaves every other parameter as it was; with max_length None
\* no pass runs and the table stays as the optimizer left it.
C12_ProjectionFrame ==
    [][(kind \in {"DropoutMlp", "FastDropoutNetwork"} /\ pc = "yielded"
          /\ pc' \in {"yielded", "done"}) =>
          IF cfg.max_length = <<>>
          THEN /\ projected' = <<>>
               /\ pc' = "done" => parameters' = parameters
          ELSE /\ Range(projected') = ProjectedWeights(cfg)
               /\ Len(projected') = Cardinality(ProjectedWeights(cfg))
               /\ pc' = "done" =>
                     \A n \in DOMAIN parameters :
                        parameters'[n] =
                            IF n \in ProjectedWeights(cfg)
                            THEN MaxLengthColumns(parameters[n], cfg.max_length[1])
                            ELSE parameters[n]]_vars

C12_Witness ==
    /\ kind = "FastDropoutNetwork"
    /\ pc = "done"
    /\ Len(records) >= 1
    /\ cfg.max_length = <<2>>
    /\ projected = <<"in_to_hidden", "hidden_to_hidden_0", "hidden_to_out">>
    /\ parameters["hidden_bias_0"][1][1] = 1
    /\ parameters["out_bias"][1][1] = 1
    /\ \A n \in ProjectedWeights(cfg) : WithinMaxLength(parameters[n], 2)

====
